---- MODULE Spec2Model ----
(* A model of deno's extension framework (core/extensions.rs): the           *)
(* ExtensionBuilder, the Extension it builds, dependency validation and the  *)
(* initialization calls a runtime makes on each Extension.                   *)
EXTENDS Integers, Sequences, FiniteSets, TLC

VARIABLES
  builder,  \* the ExtensionBuilder in use
  calls,    \* history: the builder calls (op, argument) since the builder was last drained or created
  exts,     \* the caller's ordered list of built Extensions
  hist,     \* history: per Extension, how often each one-shot call was made
  last,     \* the most recent call on an Extension (or build): its receiver before the call and what it returned
  op_state, \* the shared OpState: what the state hooks have put into it
  script,   \* the build script: where it is in main, its environment and its locals
  disk,     \* the files the build script reads and writes: path -> content
  isolate,  \* the isolate being warmed up for the compiler snapshot: its OpState and the latest op call
  process   \* the deno process: where it is in main, what it wrote to stderr, its exit code

ext_vars == <<builder, calls, exts, hist, last, op_state>>
build_vars == <<script, disk, isolate>>
cli_vars == <<process>>
vars == <<ext_vars, build_vars, cli_vars>>

-----------------------------------------------------------------------------
(* Bounds of the model.                                                      *)

\* Extensions in the caller's list, builder calls between two drains of the
\* builder, and elements of one Vec argument, per specification
MaxExtsDeps == 3
MaxCallsDeps == 1
MaxVecDeps == 2
MaxExtsFiles == 2
MaxCallsFiles == 2
MaxVecFiles == 2
MaxExtsBuilder == 2
MaxCallsBuilder == 2
MaxVecBuilder == 2
MaxExtsOps == 2
MaxCallsOps == 1
MaxVecOps == 2
MaxExtsFrame == 1
MaxCallsFrame == 3
\* pieces of an error's text
MaxMessage == 3
MaxExtsLife == 1
MaxCallsLife == 4
\* calls of one one-shot operation on one Extension
MaxRepeat == 2
\* entries the state hooks put into the OpState
MaxOpState == 2

SeqsUpTo(S, n) == UNION {[1..k -> S] : k \in 0..n}

-----------------------------------------------------------------------------
(* Option<T>: None is the empty sequence, Some(v) the one-element sequence.  *)

None == <<>>
Some(v) == <<v>>
IsSome(o) == Len(o) = 1
IsNone(o) == Len(o) = 0
Unwrap(o) == o[1]

-----------------------------------------------------------------------------
(* Input values.                                                             *)

Names == {"a", "a/b"}
Specifiers == {"c", "b/c"}
Codes == {"x", "y"}
ExtensionFileSource == [specifier : Specifiers, code : Codes]

OpOn == [name |-> "op_on", v8_fn_ptr |-> "fn_on", enabled |-> TRUE, is_async |-> FALSE,
         is_unstable |-> FALSE, argc |-> 1, is_v8 |-> FALSE, fast_fn |-> None]
OpOff == [name |-> "op_off", v8_fn_ptr |-> "fn_off", enabled |-> FALSE, is_async |-> TRUE,
          is_unstable |-> TRUE, argc |-> 2, is_v8 |-> TRUE, fast_fn |-> Some("fast_off")]
OpDecls == {OpOn, OpOff}

\* hooks are closures; two distinguishable ones per slot
StateFns == {"state_1", "state_2"}
MiddlewareFns == {"mw_1", "mw_2"}
EventLoopFns == {"elm_1", "elm_2"}

-----------------------------------------------------------------------------
(* ExtensionBuilder.                                                         *)

ExtensionBuilder_default ==
  [js |-> <<>>, esm |-> <<>>, ops |-> <<>>, state |-> None, middleware |-> None,
   event_loop_middleware |-> None, name |-> "", deps |-> <<>>]

Extension_builder(name) == [ExtensionBuilder_default EXCEPT !.name = name]

\* as Namespaced, with the two arguments of format! in the other order
Namespaced_swapped(name, file_source) ==
  [specifier |-> "internal:" \o file_source.specifier \o "/" \o name,
   code |-> file_source.code]

\* as Namespaced, with the "/" missing from the format string
Namespaced_unseparated(name, file_source) ==
  [specifier |-> "internal:" \o name \o file_source.specifier,
   code |-> file_source.code]

\* format!("internal:{}/{}", self.name, file_source.specifier)
Namespaced(name, file_source) ==
  [specifier |-> "internal:" \o name \o "/" \o file_source.specifier,
   code |-> file_source.code]

MapFiles(name, files) == [k \in 1..Len(files) |-> Namespaced(name, files[k])]

Logged(op, arg) == Append(calls, [op |-> op, arg |-> arg])

NewBuilder(name) ==
  /\ builder' = Extension_builder(name)
  /\ calls' = <<>>
  /\ UNCHANGED <<exts, hist, last, op_state, build_vars, cli_vars>>

\* as Dependencies, assigning the Vec instead of extending with it
Dependencies_assign(dependencies) ==
  /\ builder' = [builder EXCEPT !.deps = dependencies]
  /\ calls' = Logged("dependencies", dependencies)
  /\ UNCHANGED <<exts, hist, last, op_state, build_vars, cli_vars>>

Dependencies(dependencies) ==
  /\ builder' = [builder EXCEPT !.deps = @ \o dependencies]
  /\ calls' = Logged("dependencies", dependencies)
  /\ UNCHANGED <<exts, hist, last, op_state, build_vars, cli_vars>>

Js(js_files) ==
  /\ builder' = [builder EXCEPT !.js = @ \o MapFiles(builder.name, js_files)]
  /\ calls' = Logged("js", js_files)
  /\ UNCHANGED <<exts, hist, last, op_state, build_vars, cli_vars>>

Esm(esm_files) ==
  /\ builder' = [builder EXCEPT !.esm = @ \o MapFiles(builder.name, esm_files)]
  /\ calls' = Logged("esm", esm_files)
  /\ UNCHANGED <<exts, hist, last, op_state, build_vars, cli_vars>>

Ops(ops) ==
  /\ builder' = [builder EXCEPT !.ops = @ \o ops]
  /\ calls' = Logged("ops", ops)
  /\ UNCHANGED <<exts, hist, last, op_state, build_vars, cli_vars>>

State(opstate_fn) ==
  /\ builder' = [builder EXCEPT !.state = Some(opstate_fn)]
  /\ calls' = Logged("state", opstate_fn)
  /\ UNCHANGED <<exts, hist, last, op_state, build_vars, cli_vars>>

\* as Middleware, keeping a hook that is already set
Middleware_keep(middleware_fn) ==
  /\ builder' = [builder EXCEPT !.middleware = IF IsSome(@) THEN @ ELSE Some(middleware_fn)]
  /\ calls' = Logged("middleware", middleware_fn)
  /\ UNCHANGED <<exts, hist, last, op_state, build_vars, cli_vars>>

Middleware(middleware_fn) ==
  /\ builder' = [builder EXCEPT !.middleware = Some(middleware_fn)]
  /\ calls' = Logged("middleware", middleware_fn)
  /\ UNCHANGED <<exts, hist, last, op_state, build_vars, cli_vars>>

EventLoopMiddleware(middleware_fn) ==
  /\ builder' = [builder EXCEPT !.event_loop_middleware = Some(middleware_fn)]
  /\ calls' = Logged("event_loop_middleware", middleware_fn)
  /\ UNCHANGED <<exts, hist, last, op_state, build_vars, cli_vars>>

\* the Extension build() returns
BuiltExtension(b) ==
  [js_files |-> Some(b.js), esm_files |-> Some(b.esm), ops |-> Some(b.ops),
   opstate_fn |-> b.state, middleware_fn |-> b.middleware,
   event_loop_middleware |-> b.event_loop_middleware,
   initialized |-> FALSE, enabled |-> TRUE, name |-> b.name, deps |-> Some(b.deps)]

\* as Drained, with the contents copied out instead of moved
Drained_copied(b) == b

\* the builder build() leaves behind: std::mem::take on the lists, Option::take on the hooks
Drained(b) ==
  [b EXCEPT !.js = <<>>, !.esm = <<>>, !.ops = <<>>, !.deps = <<>>,
            !.state = None, !.middleware = None, !.event_loop_middleware = None]

\* #[derive(Default)] on Extension
Extension_default ==
  [js_files |-> None, esm_files |-> None, ops |-> None, opstate_fn |-> None,
   middleware_fn |-> None, event_loop_middleware |-> None, initialized |-> FALSE,
   enabled |-> FALSE, name |-> "", deps |-> None]

\* the elements passed in the builder calls of one kind, in call order
RECURSIVE Given(_, _)
Given(builder_calls, op) ==
  IF builder_calls = <<>> THEN <<>>
  ELSE LET rest == Given(SubSeq(builder_calls, 1, Len(builder_calls) - 1), op)
           c == builder_calls[Len(builder_calls)]
       IN IF c.op = op THEN rest \o c.arg ELSE rest

\* history of a new Extension: the Extension as built, the file sources as they were
\* passed to js and esm, no calls on it yet and no outcome of check_dependencies
NewHist(built, builder_calls) ==
  [built |-> built, js_given |-> Given(builder_calls, "js"),
   esm_given |-> Given(builder_calls, "esm"), init_ops |-> 0, init_middleware |-> 0,
   init_event_loop_middleware |-> 0, middleware_yields |-> 0, event_loop_yields |-> 0,
   validation |-> "none"]

\* build(); the caller puts the Extension at the end of its list
Build ==
  /\ builder' = Drained(builder)
  /\ calls' = <<>>
  /\ exts' = Append(exts, BuiltExtension(builder))
  /\ hist' = Append(hist, NewHist(BuiltExtension(builder), calls))
  /\ last' = [op |-> "build", i |-> Len(exts) + 1, pre |-> calls, ret |-> BuiltExtension(builder),
              state |-> op_state]
  /\ UNCHANGED <<op_state, build_vars, cli_vars>>

\* Extension::default(); the caller puts the Extension at the end of its list
DefaultExtension ==
  /\ exts' = Append(exts, Extension_default)
  /\ hist' = Append(hist, NewHist(Extension_default, <<>>))
  /\ last' = [op |-> "default", i |-> Len(exts) + 1, pre |-> <<>>, ret |-> Extension_default,
              state |-> op_state]
  /\ UNCHANGED <<builder, calls, op_state, build_vars, cli_vars>>

-----------------------------------------------------------------------------

(* Extension: the calls a runtime makes on the Extensions of its list.        *)

Return(v) == [panic |-> FALSE, value |-> v]
Panic(m) == [panic |-> TRUE, value |-> m]

\* the record of a call on Extension i: the Extension and the OpState before it, and its outcome
Called(op, i, ret) == [op |-> op, i |-> i, pre |-> exts[i], ret |-> ret, state |-> op_state]

\* for dep in deps, from the k-th on
RECURSIVE DepLoop(_, _, _)
DepLoop(self, previous_exts, k) ==
  IF k > Len(Unwrap(self.deps)) THEN Return("unit")
  ELSE LET dep == Unwrap(self.deps)[k] IN
    IF dep = self.name
      THEN Panic([error |-> "SelfDependency", ext |-> self.name, dep |-> dep])
    ELSE IF \E j \in 1..Len(previous_exts) : dep = previous_exts[j].name
      THEN DepLoop(self, previous_exts, k + 1)
    ELSE Panic([error |-> "MissingDependency", ext |-> self.name, dep |-> dep])

\* as check_dependencies, with `break` in place of `continue 'dep_loop`: a dependency
\* that was found falls through to the panic
check_dependencies_break(self, previous_exts) ==
  IF IsNone(self.deps) \/ Len(Unwrap(self.deps)) = 0 THEN Return("unit")
  ELSE LET dep == Unwrap(self.deps)[1] IN
    Panic([error |-> IF dep = self.name THEN "SelfDependency" ELSE "MissingDependency",
           ext |-> self.name, dep |-> dep])

\* as check_dependencies, without the comparison of dep with self.name
check_dependencies_no_self(self, previous_exts) ==
  LET deps == IF IsSome(self.deps) THEN Unwrap(self.deps) ELSE <<>>
      lost == {k \in 1..Len(deps) : \A j \in 1..Len(previous_exts) : deps[k] # previous_exts[j].name}
  IN IF lost = {} THEN Return("unit")
     ELSE Panic([error |-> "MissingDependency", ext |-> self.name,
                 dep |-> deps[CHOOSE k \in lost : \A m \in lost : k <= m]])

check_dependencies(self, previous_exts) ==
  IF IsSome(self.deps) THEN DepLoop(self, previous_exts, 1) ELSE Return("unit")

\* the runtime validates each Extension against the ones before it in the list
CheckDependencies(i) ==
  /\ last' = Called("check_dependencies", i, check_dependencies(exts[i], SubSeq(exts, 1, i - 1)))
  /\ hist' = [hist EXCEPT ![i].validation =
                IF check_dependencies(exts[i], SubSeq(exts, 1, i - 1)).panic THEN "failed"
                ELSE "passed"]
  /\ UNCHANGED <<builder, calls, exts, op_state, build_vars, cli_vars>>

\* as MaskOps, without the Extension's own flag
MaskOps_unmasked(self, ops) == ops

\* op.enabled = self.enabled && op.enabled, for each op
MaskOps(self, ops) ==
  [k \in 1..Len(ops) |-> [ops[k] EXCEPT !.enabled = self.enabled /\ ops[k].enabled]]

\* as AfterInitOps, with the middleware hook dropped once the ops are registered
AfterInitOps_drops_middleware(self) ==
  [self EXCEPT !.initialized = TRUE, !.ops = None, !.middleware_fn = None]

\* as AfterInitOps, with the ops cloned out of the Extension instead of taken
AfterInitOps_keeps(self) == [self EXCEPT !.initialized = TRUE]

\* the Extension after init_ops, when it does not panic
AfterInitOps(self) == [self EXCEPT !.initialized = TRUE, !.ops = None]

\* as init_ops, made idempotent: a later call returns nothing instead of panicking
init_ops_idempotent(self) ==
  IF self.initialized \/ IsNone(self.ops) THEN Return(None)
  ELSE Return(Some(MaskOps(self, Unwrap(self.ops))))

\* as init_ops, refusing to register ops while the middleware hook is still in its slot
init_ops_after_middleware(self) ==
  IF self.initialized THEN Panic("init_ops called twice: not idempotent or correct")
  ELSE IF IsSome(self.middleware_fn) THEN Panic("init_ops called before init_middleware")
  ELSE IF IsNone(self.ops) THEN Return(None)
  ELSE Return(Some(MaskOps(self, Unwrap(self.ops))))

\* as get_js_sources, matching on esm_files
get_js_sources_esm(self) ==
  IF IsSome(self.esm_files) THEN Unwrap(self.esm_files) ELSE <<>>

get_js_sources(self) ==
  IF IsSome(self.js_files) THEN Unwrap(self.js_files) ELSE <<>>

get_esm_sources(self) ==
  IF IsSome(self.esm_files) THEN Unwrap(self.esm_files) ELSE <<>>

GetJsSources(i) ==
  /\ last' = Called("get_js_sources", i, Return(get_js_sources(exts[i])))
  /\ UNCHANGED <<builder, calls, exts, hist, op_state, build_vars, cli_vars>>

GetEsmSources(i) ==
  /\ last' = Called("get_esm_sources", i, Return(get_esm_sources(exts[i])))
  /\ UNCHANGED <<builder, calls, exts, hist, op_state, build_vars, cli_vars>>

\* what init_ops returns
init_ops(self) ==
  IF self.initialized THEN Panic("init_ops called twice: not idempotent or correct")
  ELSE IF IsNone(self.ops) THEN Return(None)
  ELSE Return(Some(MaskOps(self, Unwrap(self.ops))))

\* as InitOps, with a panicking call dropping the hooks of the Extension
InitOps_poisoning(i) ==
  /\ last' = Called("init_ops", i, init_ops(exts[i]))
  /\ exts' = [exts EXCEPT ![i] =
                IF init_ops(@).panic
                  THEN [@ EXCEPT !.opstate_fn = None, !.middleware_fn = None,
                                 !.event_loop_middleware = None]
                ELSE AfterInitOps(@)]
  /\ hist' = [hist EXCEPT ![i].init_ops = @ + 1]
  /\ UNCHANGED <<builder, calls, op_state, build_vars, cli_vars>>

InitOps(i) ==
  /\ last' = Called("init_ops", i, init_ops(exts[i]))
  /\ exts' = [exts EXCEPT ![i] = IF init_ops(@).panic THEN @ ELSE AfterInitOps(@)]
  /\ hist' = [hist EXCEPT ![i].init_ops = @ + 1]
  /\ UNCHANGED <<builder, calls, op_state, build_vars, cli_vars>>

\* the state hooks: the first records itself in the OpState, the second fails
RunStateFn(ofn, state) ==
  IF ofn = "state_1" THEN [state |-> Append(state, ofn), result |-> "Ok"]
  ELSE [state |-> state, result |-> "Err"]

\* as init_state, with the hook run a second time on its own result
init_state_twice(self, state) ==
  IF IsSome(self.opstate_fn)
    THEN RunStateFn(Unwrap(self.opstate_fn), RunStateFn(Unwrap(self.opstate_fn), state).state)
  ELSE [state |-> state, result |-> "Ok"]

init_state(self, state) ==
  IF IsSome(self.opstate_fn) THEN RunStateFn(Unwrap(self.opstate_fn), state)
  ELSE [state |-> state, result |-> "Ok"]

InitState(i) ==
  /\ last' = Called("init_state", i, Return(init_state(exts[i], op_state).result))
  /\ op_state' = init_state(exts[i], op_state).state
  /\ UNCHANGED <<builder, calls, exts, hist, build_vars, cli_vars>>

\* as InitMiddleware, reading the slot without emptying it
InitMiddleware_peek(i) ==
  /\ last' = Called("init_middleware", i, Return(exts[i].middleware_fn))
  /\ hist' = [hist EXCEPT ![i].init_middleware = @ + 1,
                          ![i].middleware_yields = @ + Len(exts[i].middleware_fn)]
  /\ UNCHANGED <<builder, calls, exts, op_state, build_vars, cli_vars>>

\* self.middleware_fn.take()
InitMiddleware(i) ==
  /\ last' = Called("init_middleware", i, Return(exts[i].middleware_fn))
  /\ exts' = [exts EXCEPT ![i].middleware_fn = None]
  /\ hist' = [hist EXCEPT ![i].init_middleware = @ + 1,
                          ![i].middleware_yields = @ + Len(exts[i].middleware_fn)]
  /\ UNCHANGED <<builder, calls, op_state, build_vars, cli_vars>>

\* as InitEventLoopMiddleware, reading the slot without emptying it
InitEventLoopMiddleware_peek(i) ==
  /\ last' = Called("init_event_loop_middleware", i, Return(exts[i].event_loop_middleware))
  /\ hist' = [hist EXCEPT ![i].init_event_loop_middleware = @ + 1,
                          ![i].event_loop_yields = @ + Len(exts[i].event_loop_middleware)]
  /\ UNCHANGED <<builder, calls, exts, op_state, build_vars, cli_vars>>

\* self.event_loop_middleware.take()
InitEventLoopMiddleware(i) ==
  /\ last' = Called("init_event_loop_middleware", i, Return(exts[i].event_loop_middleware))
  /\ exts' = [exts EXCEPT ![i].event_loop_middleware = None]
  /\ hist' = [hist EXCEPT ![i].init_event_loop_middleware = @ + 1,
                          ![i].event_loop_yields = @ + Len(exts[i].event_loop_middleware)]
  /\ UNCHANGED <<builder, calls, op_state, build_vars, cli_vars>>

\* the event-loop hooks: the first reports pending work, the second none
RunEventLoopFn(f) == f = "elm_1"

\* as run_event_loop_middleware, with unwrap_or(true)
run_event_loop_middleware_pending(self) ==
  IF IsSome(self.event_loop_middleware) THEN RunEventLoopFn(Unwrap(self.event_loop_middleware))
  ELSE TRUE

run_event_loop_middleware(self) ==
  IF IsSome(self.event_loop_middleware) THEN RunEventLoopFn(Unwrap(self.event_loop_middleware))
  ELSE FALSE

RunEventLoopMiddleware(i) ==
  /\ last' = Called("run_event_loop_middleware", i, Return(run_event_loop_middleware(exts[i])))
  /\ UNCHANGED <<builder, calls, exts, hist, op_state, build_vars, cli_vars>>

\* as Enabled, with the rest of the struct taken from Default::default() instead of self
Enabled_reset(i, enabled) ==
  /\ exts' = [exts EXCEPT ![i] = [Extension_default EXCEPT !.enabled = enabled]]
  /\ last' = Called("enabled", i, Return([Extension_default EXCEPT !.enabled = enabled]))
  /\ UNCHANGED <<builder, calls, hist, op_state, build_vars, cli_vars>>

\* Self { enabled, ..self }; the caller keeps the returned Extension in the same place
Enabled(i, enabled) ==
  /\ exts' = [exts EXCEPT ![i].enabled = enabled]
  /\ last' = Called("enabled", i, Return([exts[i] EXCEPT !.enabled = enabled]))
  /\ UNCHANGED <<builder, calls, hist, op_state, build_vars, cli_vars>>

\* self.enabled(false)
Disable(i) ==
  /\ exts' = [exts EXCEPT ![i].enabled = FALSE]
  /\ last' = Called("disable", i, Return([exts[i] EXCEPT !.enabled = FALSE]))
  /\ UNCHANGED <<builder, calls, hist, op_state, build_vars, cli_vars>>

-----------------------------------------------------------------------------
(* The build script (cli/build.rs). Text that the script takes apart or puts *)
(* together (specifiers, library names, paths, file contents) is a sequence  *)
(* of characters.                                                            *)

Ok(v) == [ok |-> TRUE, value |-> v]
Err(e) == [ok |-> FALSE, value |-> e]
custom_error(class, message) == [class |-> class, message |-> message]

\* Path::join, for a relative name
Join(path, name) == path \o <<"/">> \o name

\* "asset:///lib." and ".d.ts", the literal parts of re_asset
AssetLib ==
  <<"a", "s", "s", "e", "t", ":", "/", "/", "/", "l", "i", "b", ".">>
DTs == <<".", "d", ".", "t", "s">>

\* "asset:///bootstrap.ts"
build_specifier ==
  <<"a", "s", "s", "e", "t", ":", "/", "/", "/", "b", "o", "o", "t", "s", "t", "r", "a", "p",
    ".", "t", "s">>

\* the source op_load answers the bootstrap specifier with
WarmUp ==
  <<"D", "e", "n", "o", ".", "w", "r", "i", "t", "e", "T", "e", "x", "t", "F", "i", "l", "e",
    "(", "\"", "h", "e", "l", "l", "o", ".", "t", "x", "t", "\"", ",", " ", "\"", "h", "e",
    "l", "l", "o", " ", "d", "e", "n", "o", "!", "\"", ")", ";">>

\* "An invalid specifier was requested: "
InvalidSpecifierMessage ==
  <<"A", "n", " ", "i", "n", "v", "a", "l", "i", "d", " ", "s", "p", "e", "c", "i", "f", "i",
    "e", "r", " ", "w", "a", "s", " ", "r", "e", "q", "u", "e", "s", "t", "e", "d", ":", " ">>

\* library names: two of the libs vector, in its order, three keys of op_crate_libs, and a
\* name that is in neither
Lib_deno_ns == <<"d", "e", "n", "o", ".", "n", "s">>
Lib_es5 == <<"e", "s", "5">>
Lib_deno_url == <<"d", "e", "n", "o", ".", "u", "r", "l">>
Lib_deno_web == <<"d", "e", "n", "o", ".", "w", "e", "b">>
Lib_deno_net == <<"d", "e", "n", "o", ".", "n", "e", "t">>
Lib_unknown == <<"u", "n", "k", "n", "o", "w", "n">>

\* format!("lib.{lib}.d.ts")
LibFile(lib) == <<"l", "i", "b", ".">> \o lib \o DTs

\* CARGO_MANIFEST_DIR, OUT_DIR and the directory of the op crates' declaration files
cwd == <<"/", "c", "l", "i">>
OUT_DIR == <<"/", "o", "u", "t">>
ExtDir == <<"/", "e", "x", "t">>

\* cwd.join("tsc/dts")
path_dts == Join(cwd, <<"t", "s", "c", "/", "d", "t", "s">>)

\* deno_url::get_declaration() and the like: the path of an op crate's declaration file
get_declaration(lib) == Join(ExtDir, LibFile(lib))

\* the HashMap of libs provided by op crates
op_crate_libs == [lib \in {Lib_deno_url, Lib_deno_web, Lib_deno_net} |-> get_declaration(lib)]

\* libs that should be loaded into the isolate before snapshotting
libs == <<Lib_deno_ns, Lib_es5>>

\* the iteration orders of a HashMap with the given keys
Orders(keys) ==
  {order \in [1..Cardinality(keys) -> keys] :
     \A j, k \in 1..Cardinality(keys) : j # k => order[j] # order[k]}

\* "lib_file_names.json", "COMPILER_SNAPSHOT.bin" and "CLI_SNAPSHOT.bin" in OUT_DIR
LibFileNamesPath ==
  Join(OUT_DIR,
       <<"l", "i", "b", "_", "f", "i", "l", "e", "_", "n", "a", "m", "e", "s", ".", "j", "s",
         "o", "n">>)
CompilerSnapshotPath ==
  Join(OUT_DIR,
       <<"C", "O", "M", "P", "I", "L", "E", "R", "_", "S", "N", "A", "P", "S", "H", "O", "T",
         ".", "b", "i", "n">>)
CliSnapshotPath ==
  Join(OUT_DIR,
       <<"C", "L", "I", "_", "S", "N", "A", "P", "S", "H", "O", "T", ".", "b", "i", "n">>)

\* std::fs: a file that is not there is a NotFound error
canonicalize(fs, path) ==
  IF path \in DOMAIN fs THEN Ok(path) ELSE Err(custom_error("NotFound", path))
read_to_string(fs, path) ==
  IF path \in DOMAIN fs THEN Ok(fs[path]) ELSE Err(custom_error("NotFound", path))
fs_write(fs, path, contents) ==
  [file \in DOMAIN fs \cup {path} |-> IF file = path THEN contents ELSE fs[file]]

\* serde_json::to_string of a Vec<&str>; no name of the script needs escaping
RECURSIVE JsonItems(_, _)
JsonItems(v, k) ==
  IF k > Len(v) THEN <<>>
  ELSE (IF k > 1 THEN <<",">> ELSE <<>>) \o <<"\"">> \o v[k] \o <<"\"">> \o JsonItems(v, k + 1)
to_string(v) == <<"[">> \o JsonItems(v, 1) \o <<"]">>

\* pat occurs in s at position k
Starts(s, pat, k) == k + Len(pat) - 1 <= Len(s) /\ SubSeq(s, k, k + Len(pat) - 1) = pat

\* \S
NonSpace(c) == c \notin {" ", "\t", "\n", "\r", "\f"}

\* where the text captured by (\S+) can end, for a match of asset:/{3}lib\. at position k
CaptureEnds(s, k) ==
  {e \in (k + Len(AssetLib))..Len(s) :
     /\ \A j \in (k + Len(AssetLib))..e : NonSpace(s[j])
     /\ Starts(s, DTs, e + 1)}

\* as re_asset_captures, for the pattern anchored with ^ and $
re_asset_captures_anchored(specifier) ==
  IF /\ Starts(specifier, AssetLib, 1)
     /\ Len(specifier) - Len(DTs) \in CaptureEnds(specifier, 1)
    THEN Some(SubSeq(specifier, 1 + Len(AssetLib), Len(specifier) - Len(DTs)))
  ELSE None

\* re_asset.captures(specifier) and caps.get(1): the pattern is searched for anywhere
\* in the specifier; the leftmost match is taken, with the longest capture
re_asset_captures(specifier) ==
  LET at == {k \in 1..Len(specifier) :
               Starts(specifier, AssetLib, k) /\ CaptureEnds(specifier, k) # {}}
  IN IF at = {} THEN None
     ELSE LET k == CHOOSE k \in at : \A m \in at : k <= m
              e == CHOOSE e \in CaptureEnds(specifier, k) :
                     \A m \in CaptureEnds(specifier, k) : e >= m
          IN Some(SubSeq(specifier, k + Len(AssetLib), e))

\* the response of op_load for a file's text
Loaded(data) == Ok([data |-> data, version |-> "1", scriptKind |-> 3])

\* where op_load looks for a library
LibPath(state, fs, lib) ==
  IF lib \in DOMAIN state.op_crate_libs THEN canonicalize(fs, state.op_crate_libs[lib])
  ELSE Ok(Join(state.path_dts, LibFile(lib)))

\* as op_load, answering a library whose file is missing with InvalidSpecifier
op_load_checked(state, fs, specifier) ==
  IF specifier = build_specifier THEN Loaded(WarmUp)
  ELSE IF /\ IsSome(re_asset_captures(specifier))
          /\ LibPath(state, fs, Unwrap(re_asset_captures(specifier))).ok
          /\ LibPath(state, fs, Unwrap(re_asset_captures(specifier))).value \in DOMAIN fs
    THEN Loaded(fs[LibPath(state, fs, Unwrap(re_asset_captures(specifier))).value])
  ELSE Err(custom_error("InvalidSpecifier", InvalidSpecifierMessage \o specifier))

\* as op_load, looking in the dts directory before the table of op crate libs
op_load_dts_first(state, fs, specifier) ==
  IF specifier = build_specifier THEN Loaded(WarmUp)
  ELSE IF IsSome(re_asset_captures(specifier)) THEN
    LET lib == Unwrap(re_asset_captures(specifier))
        path == IF Join(state.path_dts, LibFile(lib)) \in DOMAIN fs
                  THEN Ok(Join(state.path_dts, LibFile(lib)))
                ELSE LibPath(state, fs, lib)
    IN IF ~path.ok THEN path
       ELSE IF ~read_to_string(fs, path.value).ok THEN read_to_string(fs, path.value)
       ELSE Loaded(read_to_string(fs, path.value).value)
  ELSE Err(custom_error("InvalidSpecifier", InvalidSpecifierMessage \o specifier))

op_load(state, fs, specifier) ==
  IF specifier = build_specifier THEN Loaded(WarmUp)
  ELSE IF IsSome(re_asset_captures(specifier)) THEN
    LET lib == Unwrap(re_asset_captures(specifier))
        path == LibPath(state, fs, lib)
    IN IF ~path.ok THEN path
       ELSE IF ~read_to_string(fs, path.value).ok THEN read_to_string(fs, path.value)
       ELSE Loaded(read_to_string(fs, path.value).value)
  ELSE Err(custom_error("InvalidSpecifier", InvalidSpecifierMessage \o specifier))

\* SUPPORTED_BUILTIN_NODE_MODULES.iter().map(|s| s.name), two of them
node_built_in_module_names == <<<<"f", "s">>, <<"o", "s">>>>

op_build_info(state) ==
  [buildSpecifier |-> build_specifier, libs |-> state.build_libs,
   nodeBuiltInModuleNames |-> node_built_in_module_names]

\* op_cwd: "cache:///"
op_cwd == <<"c", "a", "c", "h", "e", ":", "/", "/", "/">>
op_exists == FALSE
op_is_node_file == FALSE
op_script_version == Ok(Some("1"))

\* as tsc_state, putting libs where build_libs belongs
tsc_state_libs(crate_libs, build_libs, dts) ==
  [op_crate_libs |-> crate_libs, build_libs |-> libs, path_dts |-> dts]

\* what the state hook of tsc_extension puts into the OpState
tsc_state(crate_libs, build_libs, dts) ==
  [op_crate_libs |-> crate_libs, build_libs |-> build_libs, path_dts |-> dts]

\* the heaps the two snapshots are taken of
CompilerHeap == "compiler isolate"
CliHeap == "cli isolate"

\* vec.extend_from_slice(&zstd::bulk::compress(snapshot_slice, 22).expect(..)); compressed
\* tells whether compress returns Ok
zstd_compression_cb(vec, snapshot_slice, compressed) ==
  IF compressed THEN Return(vec \o <<"zstd", snapshot_slice>>)
  ELSE Panic("snapshot compression failed")

\* as lz4_compression_cb, with the Result of compress_to_vec dropped instead of expected
lz4_compression_cb_unchecked(vec, snapshot_slice, compressed) ==
  IF compressed THEN Return(vec \o <<"lz4", snapshot_slice>>)
  ELSE Return(vec \o <<"lz4">>)

\* lzzzz::lz4_hc::compress_to_vec(snapshot_slice, vec, CLEVEL_MAX).expect(..)
lz4_compression_cb(vec, snapshot_slice, compressed) ==
  IF compressed THEN Return(vec \o <<"lz4", snapshot_slice>>)
  ELSE Panic("snapshot compression failed")

\* create_snapshot, from the heap capture on: the blob goes through the compression
\* callback and the outcome is written to snapshot_path; a panic of the callback ends
\* the call before anything is written
create_snapshot(fs, snapshot_path, compression) ==
  IF compression.panic THEN [disk |-> fs, ret |-> compression]
  ELSE [disk |-> fs_write(fs, snapshot_path, compression.value), ret |-> Return("unit")]

\* the build script before main, and an isolate before its state hook has run
NotRun ==
  [pc |-> "none", docs_rs |-> FALSE, target |-> "", host |-> "", symbols_list |-> FALSE,
   build_libs |-> <<>>, panic |-> "", in |-> ""]
NewIsolate == [state |-> None, resp |-> [op |-> "none", arg |-> <<>>, ret |-> <<>>]]

Panicked(in, message) == [script EXCEPT !.pc = "panicked", !.in = in, !.panic = message]

\* as Main, without the comparison of TARGET with HOST
Main_cross ==
  /\ script.pc = "main"
  /\ script' =
       IF script.docs_rs THEN [script EXCEPT !.pc = "returned"]
       ELSE IF ~script.symbols_list THEN Panicked("main", "Missing symbols list!")
       ELSE [script EXCEPT !.pc = "create_compiler_snapshot"]
  /\ UNCHANGED <<disk, isolate, ext_vars, cli_vars>>

\* main, up to the call of create_compiler_snapshot
Main ==
  /\ script.pc = "main"
  /\ script' =
       IF script.docs_rs THEN [script EXCEPT !.pc = "returned"]
       ELSE IF script.target # script.host
         THEN Panicked("main", "Cross compiling with snapshot is not supported.")
       ELSE IF ~script.symbols_list THEN Panicked("main", "Missing symbols list!")
       ELSE [script EXCEPT !.pc = "create_compiler_snapshot"]
  /\ UNCHANGED <<disk, isolate, ext_vars, cli_vars>>

\* create_compiler_snapshot, up to the write of lib_file_names.json
BuildLibs ==
  /\ script.pc = "create_compiler_snapshot"
  /\ \E order \in Orders(DOMAIN op_crate_libs) :
       /\ script' = [script EXCEPT !.pc = "tsc_extension", !.build_libs = libs \o order]
       /\ disk' = fs_write(disk, LibFileNamesPath, to_string(libs \o order))
  /\ UNCHANGED <<isolate, ext_vars, cli_vars>>

\* create_snapshot starts the isolate, which runs the state hook of tsc_extension
TscState ==
  /\ script.pc = "tsc_extension"
  /\ isolate' = [isolate EXCEPT
                   !.state = Some(tsc_state(op_crate_libs, script.build_libs, path_dts))]
  /\ script' = [script EXCEPT !.pc = "warm_up"]
  /\ UNCHANGED <<disk, ext_vars, cli_vars>>

\* an op called by the scripts that warm the isolate up
Responds(op, arg, ret) ==
  /\ script.pc = "warm_up"
  /\ isolate' = [isolate EXCEPT !.resp = [op |-> op, arg |-> arg, ret |-> ret]]
  /\ UNCHANGED <<script, disk, ext_vars, cli_vars>>

OpBuildInfo == Responds("op_build_info", <<>>, op_build_info(Unwrap(isolate.state)))
OpCwd == Responds("op_cwd", <<>>, op_cwd)
OpExists == Responds("op_exists", <<>>, op_exists)
OpIsNodeFile == Responds("op_is_node_file", <<>>, op_is_node_file)
OpScriptVersion == Responds("op_script_version", <<>>, op_script_version)
OpLoad(specifier) ==
  Responds("op_load", specifier, op_load(Unwrap(isolate.state), disk, specifier))

\* create_snapshot takes the snapshot of the warmed-up isolate, compresses and writes it
CreateCompilerSnapshot ==
  /\ script.pc = "warm_up"
  /\ \E compressed \in BOOLEAN :
       LET done == create_snapshot(disk, CompilerSnapshotPath,
                                   zstd_compression_cb(<<>>, CompilerHeap, compressed))
       IN /\ disk' = done.disk
          /\ script' = IF done.ret.panic
                         THEN Panicked("create_compiler_snapshot", done.ret.value)
                       ELSE [script EXCEPT !.pc = "create_cli_snapshot"]
  /\ UNCHANGED <<isolate, ext_vars, cli_vars>>

\* create_cli_snapshot
CreateCliSnapshot ==
  /\ script.pc = "create_cli_snapshot"
  /\ \E compressed \in BOOLEAN :
       LET done == create_snapshot(disk, CliSnapshotPath,
                                   lz4_compression_cb(<<>>, CliHeap, compressed))
       IN /\ disk' = done.disk
          /\ script' = IF done.ret.panic THEN Panicked("create_cli_snapshot", done.ret.value)
                       ELSE [script EXCEPT !.pc = "done"]
  /\ UNCHANGED <<isolate, ext_vars, cli_vars>>

-----------------------------------------------------------------------------
(* The deno process (cli/main.rs). An error is its type and its text; a text *)
(* is a sequence of pieces, so that a prefix can be told from the rest.      *)

ErrorTypes == {"JsError", "LockfileError", "clap::Error", "io::Error"}
Texts == SeqsUpTo({"error: ", "boom"}, MaxMessage)
Errors == [type : ErrorTypes, text : Texts]

\* error.downcast_ref::<T>()
downcast_ref(error, type) == IF error.type = type THEN Some(error) ELSE None

\* format!("{error:?}"), format_js_error(e) and e.to_string(): the text of the error,
\* as the error renders it
Rendered(error) == error.text

\* error_string.trim_start_matches("error: ")
RECURSIVE trim_start_matches(_, _)
trim_start_matches(string, prefix) ==
  IF Len(string) > 0 /\ string[1] = prefix
    THEN trim_start_matches(SubSeq(string, 2, Len(string)), prefix)
  ELSE string

\* the error code unwrap_or_exit ends the process with
error_code(error) ==
  IF IsSome(downcast_ref(error, "JsError")) THEN 1
  ELSE IF IsSome(downcast_ref(error, "LockfileError")) THEN 10
  ELSE 1

\* as unwrap_or_exit, with the error code of a LockfileError left at 1
unwrap_or_exit_one(result) ==
  IF result.ok THEN [returns |-> TRUE, value |-> result.value, stderr |-> <<>>, exit |-> None]
  ELSE [returns |-> FALSE, value |-> <<>>,
        stderr |-> <<<<"error", ": ">> \o trim_start_matches(Rendered(result.value), "error: ")>>,
        exit |-> Some(1)]

\* unwrap_or_exit: the value it returns, or the line it prints and the code it exits with
unwrap_or_exit(result) ==
  IF result.ok THEN [returns |-> TRUE, value |-> result.value, stderr |-> <<>>, exit |-> None]
  ELSE [returns |-> FALSE, value |-> <<>>,
        stderr |-> <<<<"error", ": ">> \o trim_start_matches(Rendered(result.value), "error: ")>>,
        exit |-> Some(error_code(result.value))]

\* the process before main, with no unwrap_or_exit call made
NotStarted ==
  [pc |-> "none", stderr |-> <<>>, exit_code |-> None,
   unwrapped |-> [at |-> "none", result |-> Ok("unit"), outcome |-> unwrap_or_exit(Ok("unit"))]]

\* the process after unwrap_or_exit(result) at `at`, going on at `next` if it returns
Unwrapped(at, result, next) ==
  LET outcome == unwrap_or_exit(result)
  IN [pc |-> IF outcome.returns THEN next ELSE "exited",
      stderr |-> process.stderr \o outcome.stderr,
      exit_code |-> outcome.exit,
      unwrapped |-> [at |-> at, result |-> result, outcome |-> outcome]]

\* std::process::exit(code)
Exited(code) == [process EXCEPT !.pc = "exited", !.exit_code = Some(code)]

\* unwrap_or_exit(standalone_res)
Standalone ==
  /\ process.pc = "standalone"
  /\ \/ process' = Unwrapped("standalone", Ok("unit"), "flags")
     \/ \E error \in Errors : process' = Unwrapped("standalone", Err(error), "flags")
  /\ UNCHANGED <<ext_vars, build_vars>>

\* match flags_from_vec(args): help and version are printed and end the process with 0,
\* any other error goes to unwrap_or_exit
FlagsFromVec ==
  /\ process.pc = "flags"
  /\ \/ process' = [process EXCEPT !.pc = "run_subcommand"]
     \/ \E kind \in {"DisplayHelp", "DisplayVersion"} : process' = Exited(0)
     \/ \E err \in {e \in Errors : e.type = "clap::Error"} :
          process' = Unwrapped("flags", Err(err), "run_subcommand")
  /\ UNCHANGED <<ext_vars, build_vars>>

\* let exit_code = unwrap_or_exit(run_local(future)); std::process::exit(exit_code)
RunSubcommand ==
  /\ process.pc = "run_subcommand"
  /\ \/ \E code \in {0, 1, 10} :
          LET exit_code == unwrap_or_exit(Ok(code))
          IN process' = [Unwrapped("run_subcommand", Ok(code), "exited") EXCEPT
                           !.exit_code = IF exit_code.returns THEN Some(exit_code.value) ELSE @]
     \/ \E error \in Errors : process' = Unwrapped("run_subcommand", Err(error), "exited")
  /\ UNCHANGED <<ext_vars, build_vars>>

-----------------------------------------------------------------------------
(* Specifications.                                                           *)

Init ==
  /\ builder \in {Extension_builder(n) : n \in Names}
  /\ calls = <<>>
  /\ exts = <<>>
  /\ hist = <<>>
  /\ last = [op |-> "none", i |-> 0, pre |-> <<>>, ret |-> <<>>, state |-> <<>>]
  /\ op_state = <<>>
  /\ script = NotRun
  /\ disk = <<>>
  /\ isolate = NewIsolate
  /\ process = NotStarted

Room(maxExts, maxCalls) == Len(exts) < maxExts /\ Len(calls) < maxCalls

(* Dependency validation: Extensions that differ in name and dependencies.   *)
NextDeps ==
  \/ Len(exts) < MaxExtsDeps /\ \E n \in Names : NewBuilder(n)
  \/ Room(MaxExtsDeps, MaxCallsDeps) /\ \E v \in SeqsUpTo(Names, MaxVecDeps) : Dependencies(v)
  \/ Len(exts) < MaxExtsDeps /\ Build
  \/ \E i \in 1..Len(exts) : CheckDependencies(i)

SpecDeps == Init /\ [][NextDeps]_vars

(* File sources: Extensions that differ in name and files.                   *)
JsFiles == {f \in ExtensionFileSource : f.code = "x"}
EsmFiles == {f \in ExtensionFileSource : f.code = "y"}

NextFiles ==
  \/ Len(exts) < MaxExtsFiles /\ \E n \in Names : NewBuilder(n)
  \/ Room(MaxExtsFiles, MaxCallsFiles) /\ \E v \in SeqsUpTo(JsFiles, MaxVecFiles) : Js(v)
  \/ Room(MaxExtsFiles, MaxCallsFiles) /\ \E v \in SeqsUpTo(EsmFiles, MaxVecFiles) : Esm(v)
  \/ Len(exts) < MaxExtsFiles /\ Build

SpecFiles == Init /\ [][NextFiles]_vars

(* The builder alone, with every kind of call, built more than once.         *)
NextBuilder ==
  \/ /\ Room(MaxExtsBuilder, MaxCallsBuilder)
     /\ \/ \E v \in SeqsUpTo(Names, MaxVecBuilder) : Dependencies(v)
        \/ \E v \in SeqsUpTo({[specifier |-> "c", code |-> "x"]}, 1) : Js(v)
        \/ \E v \in SeqsUpTo({[specifier |-> "b/c", code |-> "y"]}, 1) : Esm(v)
        \/ \E v \in SeqsUpTo(OpDecls, MaxVecBuilder) : Ops(v)
        \/ \E f \in StateFns : State(f)
        \/ \E f \in MiddlewareFns : Middleware(f)
        \/ \E f \in EventLoopFns : EventLoopMiddleware(f)
  \/ Len(exts) < MaxExtsBuilder /\ Build

SpecBuilder == Init /\ [][NextBuilder]_vars

(* Ops and the enabled flags: Extensions at several positions of the list.   *)
NextOps ==
  \/ Len(exts) < MaxExtsOps /\ \E n \in Names : NewBuilder(n)
  \/ Room(MaxExtsOps, MaxCallsOps) /\ \E v \in SeqsUpTo(OpDecls, MaxVecOps) : Ops(v)
  \/ Len(exts) < MaxExtsOps /\ Build
  \/ \E i \in 1..Len(exts) :
        \/ hist[i].init_ops < MaxRepeat /\ InitOps(i)
        \/ \E b \in BOOLEAN : Enabled(i, b)
        \/ Disable(i)

SpecOps == Init /\ [][NextOps]_vars

(* One Extension through every call of its life, in any order.               *)
NextLife ==
  \/ /\ Room(MaxExtsLife, MaxCallsLife)
     /\ \/ \E v \in {<<"a">>} : Dependencies(v)
        \/ \E v \in {<<OpOn, OpOff>>} : Ops(v)
        \/ \E f \in StateFns : State(f)
        \/ \E f \in MiddlewareFns : Middleware(f)
        \/ \E f \in EventLoopFns : EventLoopMiddleware(f)
  \/ Len(exts) < MaxExtsLife /\ Build
  \/ Len(exts) < MaxExtsLife /\ calls = <<>> /\ DefaultExtension
  \/ \E i \in 1..Len(exts) :
        \/ CheckDependencies(i)
        \/ hist[i].init_ops < MaxRepeat /\ InitOps(i)
        \/ Len(op_state) < MaxOpState /\ InitState(i)
        \/ hist[i].init_middleware < MaxRepeat /\ InitMiddleware(i)
        \/ hist[i].init_event_loop_middleware < MaxRepeat /\ InitEventLoopMiddleware(i)
        \/ RunEventLoopMiddleware(i)
        \/ \E b \in BOOLEAN : Enabled(i, b)
        \/ Disable(i)

Spec == Init /\ [][NextLife]_vars

(* One Extension with dependencies and files through the calls of its life.  *)
NextFrame ==
  \/ Len(exts) < MaxExtsFrame /\ \E n \in Names : NewBuilder(n)
  \/ /\ Room(MaxExtsFrame, MaxCallsFrame)
     /\ \/ \E v \in {<<"a">>} : Dependencies(v)
        \/ \E v \in {<<[specifier |-> "c", code |-> "x"]>>} : Js(v)
        \/ \E v \in {<<[specifier |-> "c", code |-> "y"]>>} : Esm(v)
  \/ Len(exts) < MaxExtsFrame /\ Build
  \/ \E i \in 1..Len(exts) :
        \/ CheckDependencies(i)
        \/ hist[i].init_ops < MaxRepeat /\ InitOps(i)
        \/ InitState(i)
        \/ hist[i].init_middleware < 1 /\ InitMiddleware(i)
        \/ hist[i].init_event_loop_middleware < 1 /\ InitEventLoopMiddleware(i)
        \/ RunEventLoopMiddleware(i)
        \/ Enabled(i, TRUE)
        \/ Disable(i)
        \/ GetJsSources(i)
        \/ GetEsmSources(i)

SpecFrame == Init /\ [][NextFrame]_vars

(* The build script: its environment, the declaration files on disk, and the *)
(* specifiers the warm-up scripts ask op_load for.                           *)
\* the text of the declaration file at a path
TextOf(path) == <<"/", "/", " ">> \o path

\* the declaration files that may or may not be there
DeclarationFiles ==
  {get_declaration(Lib_deno_url), Join(path_dts, LibFile(Lib_deno_url)),
   Join(path_dts, LibFile(Lib_es5))}

\* "asset:///lib.<lib>.d.ts"
AssetSpecifier(lib) == AssetLib \o lib \o DTs

LoadSpecifiers ==
  {build_specifier,
   AssetSpecifier(Lib_deno_url), AssetSpecifier(Lib_es5), AssetSpecifier(Lib_unknown),
   AssetSpecifier(<<"e", "s", " ", "5">>),
   <<"x">> \o AssetSpecifier(Lib_es5),
   AssetSpecifier(Lib_es5) \o <<"x">>,
   <<"f", "i", "l", "e", ":", "/", "/", "/">> \o LibFile(Lib_es5)}

InitBuild ==
  /\ builder = ExtensionBuilder_default
  /\ calls = <<>>
  /\ exts = <<>>
  /\ hist = <<>>
  /\ last = [op |-> "none", i |-> 0, pre |-> <<>>, ret |-> <<>>, state |-> <<>>]
  /\ op_state = <<>>
  /\ \E docs_rs, symbols_list \in BOOLEAN, target \in {"x86_64", "aarch64"} :
       script = [NotRun EXCEPT !.pc = "main", !.docs_rs = docs_rs, !.target = target,
                               !.host = "x86_64", !.symbols_list = symbols_list]
  /\ \E files \in SUBSET DeclarationFiles : disk = [path \in files |-> TextOf(path)]
  /\ isolate = NewIsolate
  /\ process = NotStarted

NextBuild ==
  \/ Main
  \/ BuildLibs
  \/ TscState
  \/ OpBuildInfo
  \/ OpCwd
  \/ OpExists
  \/ OpIsNodeFile
  \/ OpScriptVersion
  \/ \E specifier \in LoadSpecifiers : OpLoad(specifier)
  \/ CreateCompilerSnapshot
  \/ CreateCliSnapshot

SpecBuild == InitBuild /\ [][NextBuild]_vars


(* The deno process, from the start of main.                                 *)
InitCli ==
  /\ builder = ExtensionBuilder_default
  /\ calls = <<>>
  /\ exts = <<>>
  /\ hist = <<>>
  /\ last = [op |-> "none", i |-> 0, pre |-> <<>>, ret |-> <<>>, state |-> <<>>]
  /\ op_state = <<>>
  /\ script = NotRun
  /\ disk = <<>>
  /\ isolate = NewIsolate
  /\ process = [NotStarted EXCEPT !.pc = "standalone"]

NextCli ==
  \/ Standalone
  \/ FlagsFromVec
  \/ RunSubcommand

SpecCli == InitCli /\ [][NextCli]_vars

-----------------------------------------------------------------------------
(* Claims about dependency validation (SpecDeps).                            *)

Min(S) == CHOOSE m \in S : \A x \in S : m <= x
DepsOf(e) == Unwrap(e.deps)
NamesBefore(i) == {exts[j].name : j \in 1..(i - 1)}
\* the positions of e's dependency list that name no extension among `before`
Unloaded(e, before) == {k \in 1..Len(DepsOf(e)) : DepsOf(e)[k] \notin before}
\* the positions of e's dependency list that name e itself
SelfNamed(e) == {k \in 1..Len(DepsOf(e)) : DepsOf(e)[k] = e.name}
IsMissingDependency(ret) == ret.panic /\ ret.value.error = "MissingDependency"
IsSelfDependency(ret) == ret.panic /\ ret.value.error = "SelfDependency"
\* the list with its j-th Extension moved to position i, i < j
MoveBefore(list, j, i) ==
  SubSeq(list, 1, i - 1) \o <<list[j]>> \o SubSeq(list, i, j - 1) \o SubSeq(list, j + 1, Len(list))
\* what validation of the Extension at position i says once the one at j > i is moved before it
CheckedAfterMove(j, i) ==
  LET moved == MoveBefore(exts, j, i)
  IN check_dependencies(moved[i + 1], SubSeq(moved, 1, i))

\* C1 as stated: validation fails with the missing-dependency error whenever some
\* dependency names no earlier extension, and passes once that dependency is moved
\* before the extension.
C1_AsStated ==
  last.op = "check_dependencies" =>
    LET e == last.pre
        un == Unloaded(e, NamesBefore(last.i))
    IN /\ un # {} => IsMissingDependency(last.ret)
       /\ \A j \in (last.i + 1)..Len(exts) :
            (IsMissingDependency(last.ret) /\ exts[j].name = last.ret.value.dep)
              => ~CheckedAfterMove(j, last.i).panic

\* C1, amended: check_dependencies(E, extensions before E) fails with the
\* missing-dependency error exactly when some name of E's dependency list names no
\* earlier extension and E's own name does not occur in the list at or before the
\* first such name (when it does, the failure is the self-dependency error); the
\* error names the first such dependency. Once that dependency is moved before E,
\* E no longer fails on it, and E passes when it was E's only missing dependency
\* and E does not list its own name. An extension without dependencies passes at
\* every position.
C1_MissingDependency ==
  last.op = "check_dependencies" =>
    LET e == last.pre
        un == Unloaded(e, NamesBefore(last.i))
        self == SelfNamed(e)
    IN /\ IsMissingDependency(last.ret) <=> (un # {} /\ \A s \in self : Min(un) < s)
       /\ IsMissingDependency(last.ret) =>
            last.ret.value = [error |-> "MissingDependency", ext |-> e.name,
                              dep |-> DepsOf(e)[Min(un)]]
       /\ Len(DepsOf(e)) = 0 => last.ret = Return("unit")
       /\ \A j \in (last.i + 1)..Len(exts) :
            (IsMissingDependency(last.ret) /\ exts[j].name = last.ret.value.dep) =>
              LET again == CheckedAfterMove(j, last.i)
              IN /\ ~(IsMissingDependency(again) /\ again.value.dep = last.ret.value.dep)
                 /\ ({DepsOf(e)[k] : k \in un} = {last.ret.value.dep} /\ self = {})
                      => again = Return("unit")

\* a missing dependency that stands later in the list, and validation passes once it is moved
C1_Witness ==
  /\ last.op = "check_dependencies"
  /\ IsMissingDependency(last.ret)
  /\ \E j \in (last.i + 1)..Len(exts) :
       /\ exts[j].name = last.ret.value.dep
       /\ CheckedAfterMove(j, last.i) = Return("unit")

\* C2 as stated: an Extension that lists its own name always fails with the
\* self-dependency error.
C2_AsStated ==
  (last.op = "check_dependencies" /\ SelfNamed(last.pre) # {}) => IsSelfDependency(last.ret)

\* C2, amended: an Extension whose dependency list contains its own name always
\* fails check_dependencies, at every position and after any preceding extensions
\* (one of the same name included): with the self-dependency error, unless a name
\* listed before the first occurrence of its own name names no earlier extension,
\* and then with the missing-dependency error for the first such name.
C2_SelfDependency ==
  (last.op = "check_dependencies" /\ SelfNamed(last.pre) # {}) =>
    LET e == last.pre
        un == Unloaded(e, NamesBefore(last.i))
        first == Min(SelfNamed(e))
    IN /\ last.ret.panic
       /\ IsSelfDependency(last.ret) <=> (\A k \in un : first <= k)
       /\ IsSelfDependency(last.ret) =>
            last.ret.value = [error |-> "SelfDependency", ext |-> e.name, dep |-> e.name]
       /\ ~IsSelfDependency(last.ret) =>
            last.ret.value = [error |-> "MissingDependency", ext |-> e.name,
                              dep |-> DepsOf(e)[Min(un)]]

\* a self-dependency reported at a later position, after an extension of the same name
C2_Witness ==
  /\ last.op = "check_dependencies"
  /\ IsSelfDependency(last.ret)
  /\ \E j \in 1..(last.i - 1) : exts[j].name = last.pre.name
  /\ Len(DepsOf(last.pre)) > 1

-----------------------------------------------------------------------------
(* Claims about the calls on one Extension (Spec, SpecOps).                  *)

\* C3: whatever else is called on an Extension in between, and whether or not it
\* owns ops, its first init_ops call returns and every later one panics.
C3_InitOpsOnce ==
  last.op = "init_ops" =>
    /\ hist[last.i].init_ops = 1 => ~last.ret.panic
    /\ hist[last.i].init_ops > 1 =>
         last.ret = Panic("init_ops called twice: not idempotent or correct")

\* a later init_ops call has panicked on an Extension without ops, after its hooks were taken
C3_Witness ==
  /\ last.op = "init_ops"
  /\ last.ret.panic
  /\ hist[last.i].init_ops = MaxRepeat
  /\ hist[last.i].built.ops = Some(<<>>)
  /\ hist[last.i].init_middleware > 0
  /\ hist[last.i].init_event_loop_middleware > 0

\* C4: the enabled flag of every op init_ops returns is the Extension's flag at the
\* call AND the op's flag as declared, at every position of the list.
C4_EnabledMask ==
  (last.op = "init_ops" /\ ~last.ret.panic) =>
    LET declared == Unwrap(hist[last.i].built.ops)
        returned == Unwrap(last.ret.value)
    IN /\ IsSome(last.ret.value)
       /\ Len(returned) = Len(declared)
       /\ \A k \in 1..Len(declared) :
            returned[k].enabled = (last.pre.enabled /\ declared[k].enabled)

\* a disabled Extension at the second position has returned an op declared enabled, and
\* one declared disabled
C4_Witness ==
  /\ last.op = "init_ops"
  /\ ~last.ret.panic
  /\ last.i = 2
  /\ ~last.pre.enabled
  /\ exts[1].enabled
  /\ \E k, l \in 1..Len(Unwrap(hist[2].built.ops)) :
       /\ Unwrap(hist[2].built.ops)[k].enabled
       /\ ~Unwrap(hist[2].built.ops)[l].enabled

\* C10: over any sequence of calls on one Extension, init_middleware hands out the
\* middleware hook on at most one call and init_event_loop_middleware the event-loop
\* hook on at most one call: the first, when the Extension was built with that hook.
C10_HooksOnce ==
  /\ \A i \in 1..Len(exts) :
       hist[i].middleware_yields <= 1 /\ hist[i].event_loop_yields <= 1
  /\ last.op = "init_middleware" =>
       /\ IsSome(last.ret.value) <=>
            (hist[last.i].init_middleware = 1 /\ IsSome(hist[last.i].built.middleware_fn))
       /\ IsSome(last.ret.value) => last.ret.value = hist[last.i].built.middleware_fn
  /\ last.op = "init_event_loop_middleware" =>
       /\ IsSome(last.ret.value) <=>
            (hist[last.i].init_event_loop_middleware = 1
               /\ IsSome(hist[last.i].built.event_loop_middleware))
       /\ IsSome(last.ret.value) => last.ret.value = hist[last.i].built.event_loop_middleware

\* both hooks were handed out once, and a later init_middleware call has yielded nothing
C10_Witness ==
  /\ last.op = "init_middleware"
  /\ IsNone(last.ret.value)
  /\ hist[last.i].init_middleware = MaxRepeat
  /\ hist[last.i].middleware_yields = 1
  /\ hist[last.i].event_loop_yields = 1

\* the calls of the initialization protocol
LifecycleOps ==
  {"check_dependencies", "init_middleware", "init_ops", "init_state",
   "init_event_loop_middleware"}

\* C11 as stated: a later init_middleware (init_event_loop_middleware) call on an
\* Extension built with that hook, whose hook an earlier call took, panics.
C11_AsStated ==
  /\ (/\ last.op = "init_middleware"
      /\ hist[last.i].init_middleware > 1
      /\ IsSome(hist[last.i].built.middleware_fn)) => last.ret.panic
  /\ (/\ last.op = "init_event_loop_middleware"
      /\ hist[last.i].init_event_loop_middleware > 1
      /\ IsSome(hist[last.i].built.event_loop_middleware)) => last.ret.panic

\* C11: a later init_middleware (init_event_loop_middleware) call on an Extension whose
\* hook an earlier call took returns normally, with no hook, and leaves the Extension
\* as it was.
C11_LaterTakeReturnsNone ==
  /\ (last.op = "init_middleware" /\ hist[last.i].init_middleware > 1) =>
       /\ last.ret = Return(None)
       /\ exts[last.i] = last.pre
  /\ (last.op = "init_event_loop_middleware" /\ hist[last.i].init_event_loop_middleware > 1) =>
       /\ last.ret = Return(None)
       /\ exts[last.i] = last.pre

\* the event-loop hook of an Extension built with one was asked for a second time
C11_Witness ==
  /\ last.op = "init_event_loop_middleware"
  /\ hist[last.i].init_event_loop_middleware = MaxRepeat
  /\ IsSome(hist[last.i].built.event_loop_middleware)
  /\ hist[last.i].event_loop_yields = 1
  /\ last.ret = Return(None)

\* C12: initialized is false in the Extension build() returns, is true from the first
\* init_ops call on, and no call ever takes it back to false: it changes once, at the
\* first init_ops call, and at no other call.
C12_InitializedMonotonic ==
  /\ [](last.op = "build" => ~last.ret.initialized)
  /\ [](\A i \in 1..Len(exts) : exts[i].initialized <=> hist[i].init_ops > 0)
  /\ [][\A i \in 1..Len(exts) :
          /\ exts[i].initialized => exts'[i].initialized
          /\ (~exts[i].initialized /\ exts'[i].initialized) =>
               (last'.op = "init_ops" /\ last'.i = i /\ hist[i].init_ops = 0)]_vars

\* an Extension that refused a second init_ops and went through the other calls is
\* still initialized after disable()
C12_Witness ==
  /\ last.op = "disable"
  /\ last.pre.initialized
  /\ exts[last.i].initialized
  /\ hist[last.i].init_ops = MaxRepeat
  /\ hist[last.i].validation # "none"
  /\ hist[last.i].init_middleware > 0
  /\ Len(op_state) > 0

\* C13: init_state on an Extension without a state hook returns success and leaves
\* the OpState as it was; with a hook it runs the hook once on the OpState and
\* returns the hook's result, success or error.
C13_InitState ==
  last.op = "init_state" =>
    /\ ~last.ret.panic
    /\ exts[last.i] = last.pre
    /\ IsNone(last.pre.opstate_fn) => (last.ret.value = "Ok" /\ op_state = last.state)
    /\ last.pre.opstate_fn = Some("state_1") =>
         (last.ret.value = "Ok" /\ op_state = Append(last.state, "state_1"))
    /\ last.pre.opstate_fn = Some("state_2") =>
         (last.ret.value = "Err" /\ op_state = last.state)

\* the recording hook has run on an OpState that already held an entry
C13_Witness ==
  /\ last.op = "init_state"
  /\ last.pre.opstate_fn = Some("state_1")
  /\ Len(last.state) = 1
  /\ op_state = Append(last.state, "state_1")
  /\ last.ret = Return("Ok")

\* C18 as stated: init_ops returns only on an Extension whose dependencies were
\* validated and whose middleware was asked for, init_middleware is called only after
\* validation, and init_state and init_event_loop_middleware only after init_ops.
C18_AsStated ==
  /\ (last.op = "init_ops" /\ ~last.ret.panic) =>
       (hist[last.i].validation = "passed" /\ hist[last.i].init_middleware > 0)
  /\ last.op = "init_middleware" => hist[last.i].validation = "passed"
  /\ last.op \in {"init_state", "init_event_loop_middleware"} => hist[last.i].init_ops > 0

\* C18: the Extension holds its calls to no order: init_ops returns exactly when it
\* is the first init_ops call on the Extension, whatever the outcome of validation
\* and whether or not the middleware was asked for; init_state, init_middleware and
\* init_event_loop_middleware return in every phase.
C18_NoOrderEnforced ==
  /\ last.op = "init_ops" =>
       /\ last.ret.panic <=> last.pre.initialized
       /\ last.pre.initialized <=> hist[last.i].init_ops > 1
  /\ last.op \in {"init_state", "init_middleware", "init_event_loop_middleware"} =>
       ~last.ret.panic

\* init_ops has returned on an Extension whose validation failed and whose middleware
\* hook is still in its slot, after a state hook ran
C18_Witness ==
  /\ last.op = "init_ops"
  /\ ~last.ret.panic
  /\ hist[last.i].validation = "failed"
  /\ hist[last.i].init_middleware = 0
  /\ IsSome(last.pre.middleware_fn)
  /\ Len(op_state) > 0

\* a check_dependencies call or a second init_ops call on Extension i has panicked
Violated(i) == hist[i].validation = "failed" \/ hist[i].init_ops > 1

\* C19 as stated: every call of the initialization protocol made on an Extension after
\* a failed check_dependencies or a failed second init_ops panics.
C19_AsStated ==
  /\ (last.op \in LifecycleOps \ {"check_dependencies"} /\ hist[last.i].validation = "failed")
       => last.ret.panic
  /\ (last.op \in LifecycleOps \ {"init_ops"} /\ hist[last.i].init_ops > 1)
       => last.ret.panic

\* C19: a call that panics leaves the Extension as it was, and a call made after it
\* returns what it returns on that Extension without the failure: the hooks are still
\* handed out, the state hook still runs, and validation fails the same way again.
C19_NoPoison ==
  /\ (last.op \in LifecycleOps /\ last.ret.panic) => exts[last.i] = last.pre
  /\ (last.op \in LifecycleOps /\ Violated(last.i)) =>
       /\ last.op = "init_ops" => last.ret = init_ops(last.pre)
       /\ last.op = "init_middleware" => last.ret = Return(last.pre.middleware_fn)
       /\ last.op = "init_event_loop_middleware" =>
            last.ret = Return(last.pre.event_loop_middleware)
       /\ last.op = "init_state" =>
            last.ret = Return(init_state(last.pre, last.state).result)
       /\ last.op = "check_dependencies" =>
            (last.ret.panic <=> hist[last.i].validation = "failed")

\* after a failed validation and a failed second init_ops, init_middleware has handed
\* out the hook
C19_Witness ==
  /\ last.op = "init_middleware"
  /\ IsSome(last.ret.value)
  /\ ~last.ret.panic
  /\ hist[last.i].validation = "failed"
  /\ hist[last.i].init_ops = MaxRepeat

\* C20: the first init_ops call returns the ops of the Extension, as many and in the
\* order they were added, each with every field but enabled as declared, and leaves
\* the Extension without ops; on a default-constructed Extension it returns nothing
\* and still marks the Extension initialized.
C20_InitOpsReturnsOps ==
  (last.op = "init_ops" /\ ~last.ret.panic) =>
    /\ exts[last.i].initialized
    /\ IsNone(exts[last.i].ops)
    /\ IF hist[last.i].built = Extension_default THEN last.ret.value = None
       ELSE LET declared == Unwrap(hist[last.i].built.ops)
                returned == Unwrap(last.ret.value)
            IN /\ IsSome(last.ret.value)
               /\ Len(returned) = Len(declared)
               /\ \A k \in 1..Len(declared) :
                    [returned[k] EXCEPT !.enabled = declared[k].enabled] = declared[k]

\* init_ops has returned nothing on a default-constructed Extension, now initialized
C20_Witness ==
  /\ last.op = "init_ops"
  /\ hist[last.i].built = Extension_default
  /\ last.ret = Return(None)
  /\ ~last.pre.initialized
  /\ exts[last.i].initialized

\* init_ops has returned the four ops of an Extension in the order they were added
C20_WitnessBuilt ==
  /\ last.op = "init_ops"
  /\ ~last.ret.panic
  /\ IsSome(hist[last.i].built.ops)
  /\ IsSome(last.ret.value)
  /\ Len(Unwrap(hist[last.i].built.ops)) = 4
  /\ Unwrap(last.ret.value)[3].name = "op_on"
  /\ Unwrap(last.ret.value)[4].name = "op_off"

\* C21: run_event_loop_middleware returns false on an Extension that holds no
\* event-loop hook, as every Extension does that was built without one or whose hook
\* init_event_loop_middleware has taken; on an Extension that holds the hook it returns
\* the hook's answer; either way it leaves the Extension, hook included, as it was.
C21_RunEventLoopMiddleware ==
  last.op = "run_event_loop_middleware" =>
    /\ ~last.ret.panic
    /\ exts[last.i] = last.pre
    /\ IsNone(last.pre.event_loop_middleware) <=>
         \/ IsNone(hist[last.i].built.event_loop_middleware)
         \/ hist[last.i].init_event_loop_middleware > 0
    /\ IsNone(last.pre.event_loop_middleware) => last.ret.value = FALSE
    /\ last.pre.event_loop_middleware = Some("elm_1") => last.ret.value = TRUE
    /\ last.pre.event_loop_middleware = Some("elm_2") => last.ret.value = FALSE

\* an Extension built with the hook that reports pending work was polled after the
\* hook was taken, and has reported none
C21_Witness ==
  /\ last.op = "run_event_loop_middleware"
  /\ hist[last.i].built.event_loop_middleware = Some("elm_1")
  /\ hist[last.i].init_event_loop_middleware > 0
  /\ last.ret = Return(FALSE)

\* an Extension that holds the hook that reports pending work was polled, and still
\* holds the hook
C21_WitnessHeld ==
  /\ last.op = "run_event_loop_middleware"
  /\ last.ret = Return(TRUE)
  /\ exts[last.i].event_loop_middleware = Some("elm_1")

\* C23: whatever the order of the first init_middleware, init_ops and
\* init_event_loop_middleware calls on an Extension, each returns the same: the hook the
\* Extension was built with, and its ops masked with the enabled flag it has at the call;
\* and once all three were called the Extension is the same: the one that was built,
\* initialized, without ops and without the two hooks.
C23_FirstCallsCommute ==
  /\ (last.op = "init_middleware" /\ hist[last.i].init_middleware = 1) =>
       last.ret = Return(hist[last.i].built.middleware_fn)
  /\ (last.op = "init_event_loop_middleware" /\ hist[last.i].init_event_loop_middleware = 1) =>
       last.ret = Return(hist[last.i].built.event_loop_middleware)
  /\ (last.op = "init_ops" /\ hist[last.i].init_ops = 1) =>
       last.ret = init_ops([hist[last.i].built EXCEPT !.enabled = last.pre.enabled])
  /\ \A i \in 1..Len(exts) :
       (/\ hist[i].init_middleware > 0
        /\ hist[i].init_ops > 0
        /\ hist[i].init_event_loop_middleware > 0) =>
         exts[i] = [hist[i].built EXCEPT !.initialized = TRUE, !.ops = None,
                                         !.middleware_fn = None,
                                         !.event_loop_middleware = None,
                                         !.enabled = exts[i].enabled]

\* init_middleware was called last of the three, after init_ops and
\* init_event_loop_middleware, and has handed out the hook of an Extension with ops
C23_Witness ==
  /\ last.op = "init_middleware"
  /\ hist[last.i].init_middleware = 1
  /\ hist[last.i].init_ops = 1
  /\ hist[last.i].init_event_loop_middleware = 1
  /\ IsSome(last.ret.value)
  /\ IsSome(hist[last.i].built.event_loop_middleware)
  /\ hist[last.i].built.ops # Some(<<>>)
  /\ hist[last.i].built.ops # None

\* init_ops was called last of the three, and has returned the ops
C23_WitnessOpsLast ==
  /\ last.op = "init_ops"
  /\ hist[last.i].init_ops = 1
  /\ hist[last.i].init_middleware = 1
  /\ hist[last.i].init_event_loop_middleware = 1
  /\ IsSome(hist[last.i].built.middleware_fn)
  /\ IsSome(last.ret.value)

\* the Extensions before position i, as they were built
BuiltBefore(i) == [j \in 1..(i - 1) |-> hist[j].built]

\* C24 (SpecFrame): in every state an Extension has the name, the dependency list, the
\* bootstrap-script sources and the module sources it was built with; get_js_sources
\* and get_esm_sources return those sources whenever they are called, and every
\* check_dependencies call on an Extension has the outcome of the first one.
C24_Frame ==
  /\ [](\A i \in 1..Len(exts) :
          /\ exts[i].name = hist[i].built.name
          /\ exts[i].deps = hist[i].built.deps
          /\ exts[i].js_files = hist[i].built.js_files
          /\ exts[i].esm_files = hist[i].built.esm_files)
  /\ [](last.op = "get_js_sources" =>
          /\ IsSome(hist[last.i].built.js_files)
          /\ last.ret = Return(Unwrap(hist[last.i].built.js_files)))
  /\ [](last.op = "get_esm_sources" =>
          /\ IsSome(hist[last.i].built.esm_files)
          /\ last.ret = Return(Unwrap(hist[last.i].built.esm_files)))
  /\ [](last.op = "check_dependencies" =>
          last.ret = check_dependencies(hist[last.i].built, BuiltBefore(last.i)))
  /\ [][\A i \in 1..Len(exts) :
          hist[i].validation # "none" => hist'[i].validation = hist[i].validation]_vars

\* the bootstrap-script sources were asked for after every other call was made on a
\* disabled Extension with a dependency, and are the ones it was built with
C24_Witness ==
  /\ last.op = "get_js_sources"
  /\ Len(last.ret.value) = 1
  /\ hist[last.i].built.deps = Some(<<"a">>)
  /\ hist[last.i].validation = "failed"
  /\ hist[last.i].init_ops = MaxRepeat
  /\ hist[last.i].init_middleware > 0
  /\ hist[last.i].init_event_loop_middleware > 0
  /\ ~exts[last.i].enabled

-----------------------------------------------------------------------------
(* Claims about file sources (SpecFiles).                                    *)

\* the file sources Extension i holds, bootstrap scripts first, and the same as they were given
Stored(i) == Unwrap(exts[i].js_files) \o Unwrap(exts[i].esm_files)
Original(i) == hist[i].js_given \o hist[i].esm_given
\* every stored file source: <<position of its Extension, position in Stored>>
Sources == UNION {{<<i, k>> : k \in 1..Len(Stored(i))} : i \in 1..Len(exts)}
\* the file sources as js and esm are to store them
Expected(name, given) ==
  [k \in 1..Len(given) |->
     [specifier |-> "internal:" \o name \o "/" \o given[k].specifier, code |-> given[k].code]]
StoredAsExpected ==
  \A i \in 1..Len(exts) :
    /\ exts[i].js_files = Some(Expected(exts[i].name, hist[i].js_given))
    /\ exts[i].esm_files = Some(Expected(exts[i].name, hist[i].esm_given))

\* C5 as stated: every file source is stored under "internal:" + N + "/" + S with its
\* code unchanged, and two extensions that each contribute the same original
\* specifier never end up with equal final specifiers.
C5_AsStated ==
  /\ StoredAsExpected
  /\ \A p, q \in Sources :
       (p[1] # q[1] /\ Original(p[1])[p[2]].specifier = Original(q[1])[q[2]].specifier)
         => Stored(p[1])[p[2]].specifier # Stored(q[1])[q[2]].specifier

\* C5, amended: every file source added through js or esm of an extension named N
\* with original specifier S is stored under exactly "internal:" + N + "/" + S with
\* its code unchanged, and two extensions with different names that each contribute
\* the same original specifier S never end up with equal final specifiers.
C5_Namespacing ==
  /\ StoredAsExpected
  /\ \A p, q \in Sources :
       (exts[p[1]].name # exts[q[1]].name
          /\ Original(p[1])[p[2]].specifier = Original(q[1])[q[2]].specifier)
         => Stored(p[1])[p[2]].specifier # Stored(q[1])[q[2]].specifier

\* two extensions of different names were given the same original specifier, one as a
\* bootstrap script and one as a module source
C5_Witness ==
  \E p, q \in Sources :
    /\ exts[p[1]].name = "a" /\ exts[q[1]].name = "a/b"
    /\ Original(p[1])[p[2]] = [specifier |-> "c", code |-> "x"]
    /\ Original(q[1])[q[2]] = [specifier |-> "c", code |-> "y"]
    /\ Stored(p[1])[p[2]] = [specifier |-> "internal:a/c", code |-> "x"]
    /\ Stored(q[1])[q[2]] = [specifier |-> "internal:a/b/c", code |-> "y"]

\* C6 as stated: no two stored file sources, within one extension or across
\* extensions, carry the same final specifier.
C6_AsStated ==
  \A p, q \in Sources :
    p # q => Stored(p[1])[p[2]].specifier # Stored(q[1])[q[2]].specifier

\* C6, amended: two stored file sources carry the same final specifier exactly when
\* <extension name> + "/" + <original specifier> is the same string for both. File
\* sources stored under one name with different original specifiers never collide,
\* nor do file sources of differently named extensions with the same original
\* specifier; an original specifier stored twice under one name collides (twice in
\* one list, as bootstrap script and as module source, or by two extensions of one
\* name), and so do a name and a specifier that split one path differently.
C6_Collisions ==
  \A p, q \in Sources :
    LET sp == Stored(p[1])[p[2]].specifier
        sq == Stored(q[1])[q[2]].specifier
        np == exts[p[1]].name
        nq == exts[q[1]].name
        op == Original(p[1])[p[2]].specifier
        oq == Original(q[1])[q[2]].specifier
    IN /\ (sp = sq) <=> (np \o "/" \o op = nq \o "/" \o oq)
       /\ (np = nq /\ op # oq) => sp # sq
       /\ (np # nq /\ op = oq) => sp # sq
       /\ (np = nq /\ op = oq) => sp = sq

\* two extensions of different names hold file sources with one final specifier
C6_Witness ==
  \E p, q \in Sources :
    /\ exts[p[1]].name # exts[q[1]].name
    /\ Stored(p[1])[p[2]].specifier = Stored(q[1])[q[2]].specifier

-----------------------------------------------------------------------------
(* Claims about the builder (SpecBuilder).                                   *)

Max(S) == CHOOSE m \in S : \A x \in S : m >= x
\* the hook of the last call of one setter among the builder calls, if any
LastSet(builder_calls, op) ==
  LET at == {k \in 1..Len(builder_calls) : builder_calls[k].op = op}
  IN IF at = {} THEN None ELSE Some(builder_calls[Max(at)].arg)
SeqRange(q) == {q[k] : k \in 1..Len(q)}
Empty(name) ==
  [js_files |-> Some(<<>>), esm_files |-> Some(<<>>), ops |-> Some(<<>>), opstate_fn |-> None,
   middleware_fn |-> None, event_loop_middleware |-> None, initialized |-> FALSE,
   enabled |-> TRUE, name |-> name, deps |-> Some(<<>>)]

\* C7: build() moves the builder's contents out. A later build() on the same
\* builder returns an Extension that holds only what was added after the previous
\* build(), and a build() right after a build() returns an Extension with empty
\* lists and no hooks.
C7_BuildDrains ==
  /\ calls = <<>> =>
       builder = [ExtensionBuilder_default EXCEPT !.name = builder.name]
  /\ (last.op = "build" /\ last.i > 1) =>
       LET e == last.ret
           added == last.pre
       IN /\ Len(Unwrap(e.deps)) = Len(Given(added, "dependencies"))
          /\ SeqRange(Unwrap(e.deps)) = SeqRange(Given(added, "dependencies"))
          /\ Len(Unwrap(e.ops)) = Len(Given(added, "ops"))
          /\ SeqRange(Unwrap(e.ops)) = SeqRange(Given(added, "ops"))
          /\ Len(Unwrap(e.js_files)) = Len(Given(added, "js"))
          /\ Len(Unwrap(e.esm_files)) = Len(Given(added, "esm"))
          /\ IsSome(e.opstate_fn) <=> IsSome(LastSet(added, "state"))
          /\ IsSome(e.middleware_fn) <=> IsSome(LastSet(added, "middleware"))
          /\ IsSome(e.event_loop_middleware) <=> IsSome(LastSet(added, "event_loop_middleware"))
          /\ added = <<>> => e = Empty(hist[1].built.name)

\* a build() right after a build() that returned a list and a hook
C7_Witness ==
  /\ last.op = "build"
  /\ last.i = 2
  /\ last.pre = <<>>
  /\ last.ret = Empty(last.ret.name)
  /\ Len(Unwrap(hist[1].built.ops)) = MaxVecBuilder
  /\ IsSome(hist[1].built.event_loop_middleware)

\* C8: build() returns an Extension with enabled = true and initialized = false
\* whose dependency, bootstrap-script, module-source and op lists are each the
\* concatenation, in call order and element order, of everything appended since the
\* last build().
C8_BuildContents ==
  last.op = "build" =>
    LET e == last.ret
        added == last.pre
    IN /\ e.enabled
       /\ ~e.initialized
       /\ e.name = builder.name
       /\ e.deps = Some(Given(added, "dependencies"))
       /\ e.ops = Some(Given(added, "ops"))
       /\ e.js_files = Some(Expected(e.name, Given(added, "js")))
       /\ e.esm_files = Some(Expected(e.name, Given(added, "esm")))

\* an Extension built from two dependencies calls with different Vecs of two names
C8_Witness ==
  /\ last.op = "build"
  /\ Len(last.pre) = 2
  /\ last.pre[1].op = "dependencies" /\ last.pre[2].op = "dependencies"
  /\ last.pre[1].arg # last.pre[2].arg
  /\ Len(last.pre[1].arg) = MaxVecBuilder
  /\ last.pre[1].arg[1] # last.pre[1].arg[2]
  /\ last.ret.deps = Some(last.pre[1].arg \o last.pre[2].arg)

\* C9: state, middleware and event_loop_middleware each set one slot. The built
\* Extension holds, per slot, only the hook of the last call of that setter, and a
\* call of one setter leaves the other two slots as they are.
C9_HookSlots ==
  /\ builder.state = LastSet(calls, "state")
  /\ builder.middleware = LastSet(calls, "middleware")
  /\ builder.event_loop_middleware = LastSet(calls, "event_loop_middleware")
  /\ last.op = "build" =>
       /\ last.ret.opstate_fn = LastSet(last.pre, "state")
       /\ last.ret.middleware_fn = LastSet(last.pre, "middleware")
       /\ last.ret.event_loop_middleware = LastSet(last.pre, "event_loop_middleware")

\* an Extension built after two middleware calls with different hooks
C9_Witness ==
  /\ last.op = "build"
  /\ Len(last.pre) = 2
  /\ last.pre[1].op = "middleware" /\ last.pre[2].op = "middleware"
  /\ last.pre[1].arg # last.pre[2].arg
  /\ last.ret.middleware_fn = Some(last.pre[2].arg)
  /\ IsNone(last.ret.opstate_fn)

-----------------------------------------------------------------------------
(* Claims about the build script (SpecBuild).                                *)

\* the latest op call of the warm-up scripts
resp == isolate.resp

\* the library names the specifiers of LoadSpecifiers ask for in the plain form
LoadNames == {Lib_deno_url, Lib_es5, Lib_unknown}

\* lib is not a key of the table of op crate libs and has no file in the dts directory
Unresolvable(lib) ==
  lib \notin DOMAIN op_crate_libs /\ Join(path_dts, LibFile(lib)) \notin DOMAIN disk

InvalidSpecifier(specifier) ==
  Err(custom_error("InvalidSpecifier", InvalidSpecifierMessage \o specifier))

\* C14 as stated: op_load of asset:///lib.<name>.d.ts, for a name that is not in the
\* table of op crate libs and has no file in the dts directory, fails with
\* InvalidSpecifier and the specifier in the message.
C14_AsStated ==
  \A lib \in LoadNames :
    (resp.op = "op_load" /\ resp.arg = AssetSpecifier(lib) /\ Unresolvable(lib)) =>
      resp.ret = InvalidSpecifier(resp.arg)

\* C14: op_load of asset:///lib.<name>.d.ts, for a name that is not in the table of op
\* crate libs and has no file in the dts directory, fails with the NotFound error of
\* reading <dts dir>/lib.<name>.d.ts; it fails with InvalidSpecifier, and the specifier
\* in the message, only for a specifier other than the bootstrap one in which the
\* pattern does not occur.
C14_MissingLibrary ==
  /\ \A lib \in LoadNames :
       (resp.op = "op_load" /\ resp.arg = AssetSpecifier(lib) /\ Unresolvable(lib)) =>
         resp.ret = Err(custom_error("NotFound", Join(path_dts, LibFile(lib))))
  /\ (resp.op = "op_load" /\ ~resp.ret.ok /\ resp.ret.value.class = "InvalidSpecifier") =>
       /\ resp.arg # build_specifier
       /\ IsNone(re_asset_captures(resp.arg))
       /\ resp.ret = InvalidSpecifier(resp.arg)

\* op_load was asked for asset:///lib.unknown.d.ts and has failed with NotFound
C14_Witness ==
  /\ resp.op = "op_load"
  /\ resp.arg = AssetSpecifier(Lib_unknown)
  /\ ~resp.ret.ok
  /\ resp.ret.value.class = "NotFound"

\* the file op_load is to read for a library name
Resolved(lib) ==
  IF lib \in DOMAIN op_crate_libs THEN op_crate_libs[lib] ELSE Join(path_dts, LibFile(lib))

\* C15: every successful op_load response has version "1" and scriptKind 3; the
\* bootstrap specifier is always answered with the warm-up text; asset:///lib.<name>.d.ts
\* is answered with the text of the file at the path the table of op crate libs has for
\* <name> and, for a name not in the table, of <dts dir>/lib.<name>.d.ts.
C15_LoadResponses ==
  resp.op = "op_load" =>
    /\ resp.arg = build_specifier => resp.ret = Loaded(WarmUp)
    /\ resp.ret.ok =>
         /\ resp.ret.value.version = "1"
         /\ resp.ret.value.scriptKind = 3
         /\ \A lib \in LoadNames :
              resp.arg = AssetSpecifier(lib) =>
                /\ Resolved(lib) \in DOMAIN disk
                /\ resp.ret.value.data = disk[Resolved(lib)]

\* deno.url has a file in both places, and op_load has answered with the op crate's
C15_Witness ==
  /\ resp.op = "op_load"
  /\ resp.arg = AssetSpecifier(Lib_deno_url)
  /\ resp.ret.ok
  /\ Join(path_dts, LibFile(Lib_deno_url)) \in DOMAIN disk
  /\ resp.ret.value.data = TextOf(get_declaration(Lib_deno_url))
  /\ resp.ret.value.data # disk[Join(path_dts, LibFile(Lib_deno_url))]

\* the strings of the text of a JSON array of strings: what is between the quotes
Quotes(text) == {k \in 1..Len(text) : text[k] = "\""}
NthQuote(text, n) ==
  CHOOSE k \in Quotes(text) : Cardinality({j \in Quotes(text) : j <= k}) = n
JsonStrings(text) ==
  [n \in 1..(Cardinality(Quotes(text)) \div 2) |->
     SubSeq(text, NthQuote(text, 2 * n - 1) + 1, NthQuote(text, 2 * n) - 1)]

\* C16: the libs op_build_info reports are the list written to lib_file_names.json:
\* the built-in names in the order of the libs vector, then every key of the table of op
\* crate libs once, and nothing else.
C16_LibsRoundTrip ==
  resp.op = "op_build_info" =>
    LET reported == resp.ret.libs
        recorded == JsonStrings(disk[LibFileNamesPath])
    IN /\ reported = recorded
       /\ Len(recorded) = Len(libs) + Cardinality(DOMAIN op_crate_libs)
       /\ SubSeq(recorded, 1, Len(libs)) = libs
       /\ \A lib \in DOMAIN op_crate_libs :
            Cardinality({k \in (Len(libs) + 1)..Len(recorded) : recorded[k] = lib}) = 1

\* op_build_info has reported the libs with the op crate libs in one of their orders
C16_Witness ==
  /\ resp.op = "op_build_info"
  /\ resp.ret.libs = <<Lib_deno_ns, Lib_es5, Lib_deno_net, Lib_deno_url, Lib_deno_web>>
  /\ LibFileNamesPath \in DOMAIN disk

\* C17: a snapshot file is there only as the whole compressed snapshot of its flavor;
\* when the compression of a snapshot fails the script panics and there is no file at
\* that snapshot's path; the script is done only with both snapshots written.
C17_CompressionFatal ==
  /\ CompilerSnapshotPath \in DOMAIN disk =>
       /\ disk[CompilerSnapshotPath] = <<"zstd", CompilerHeap>>
       /\ script.pc \in {"create_cli_snapshot", "done", "panicked"}
  /\ CliSnapshotPath \in DOMAIN disk =>
       /\ disk[CliSnapshotPath] = <<"lz4", CliHeap>>
       /\ script.pc = "done"
  /\ (script.pc = "panicked" /\ script.in = "create_compiler_snapshot") =>
       /\ script.panic = "snapshot compression failed"
       /\ CompilerSnapshotPath \notin DOMAIN disk
       /\ CliSnapshotPath \notin DOMAIN disk
  /\ (script.pc = "panicked" /\ script.in = "create_cli_snapshot") =>
       /\ script.panic = "snapshot compression failed"
       /\ CliSnapshotPath \notin DOMAIN disk
  /\ script.pc = "done" => {CompilerSnapshotPath, CliSnapshotPath} \subseteq DOMAIN disk

\* the compression of the CLI snapshot has failed after the compiler snapshot was written
C17_Witness ==
  /\ script.pc = "panicked"
  /\ script.in = "create_cli_snapshot"
  /\ script.panic = "snapshot compression failed"
  /\ CompilerSnapshotPath \in DOMAIN disk
  /\ CliSnapshotPath \notin DOMAIN disk

\* specifier is asset:///lib.<name>.d.ts and nothing else, for a name without white space
ExactForm(specifier) ==
  /\ Len(specifier) > Len(AssetLib) + Len(DTs)
  /\ Starts(specifier, AssetLib, 1)
  /\ Starts(specifier, DTs, Len(specifier) - Len(DTs) + 1)
  /\ \A k \in (Len(AssetLib) + 1)..(Len(specifier) - Len(DTs)) : NonSpace(specifier[k])

\* asset:///lib.<name>.d.ts occurs somewhere in specifier, for a name without white space
FormOccurs(specifier) ==
  \E k \in 1..Len(specifier), n \in 1..Len(specifier) :
    /\ Starts(specifier, AssetLib, k)
    /\ \A j \in (k + Len(AssetLib))..(k + Len(AssetLib) + n - 1) :
         j <= Len(specifier) /\ NonSpace(specifier[j])
    /\ Starts(specifier, DTs, k + Len(AssetLib) + n)

\* what reading the file of lib answers
ReadOf(lib) ==
  IF Resolved(lib) \in DOMAIN disk THEN Loaded(disk[Resolved(lib)])
  ELSE Err(custom_error("NotFound", Resolved(lib)))

\* C22 as stated: op_load fails with InvalidSpecifier, and the specifier in the
\* message, for every specifier that is neither the bootstrap specifier nor
\* asset:///lib.<name>.d.ts with nothing before or after it.
C22_AsStated ==
  (resp.op = "op_load" /\ resp.arg # build_specifier /\ ~ExactForm(resp.arg)) =>
    resp.ret = InvalidSpecifier(resp.arg)

\* C22: op_load fails with InvalidSpecifier, and the specifier in the message, for
\* exactly the specifiers other than the bootstrap one in which asset:///lib.<name>.d.ts
\* occurs nowhere; a specifier with characters before or after an occurrence is a
\* request for the library named in it, whose file is read.
C22_PatternAnywhere ==
  resp.op = "op_load" =>
    /\ resp.ret = InvalidSpecifier(resp.arg) <=>
         (resp.arg # build_specifier /\ ~FormOccurs(resp.arg))
    /\ resp.arg \in {<<"x">> \o AssetSpecifier(Lib_es5), AssetSpecifier(Lib_es5) \o <<"x">>}
         => resp.ret = ReadOf(Lib_es5)

\* op_load was asked for asset:///lib.es5.d.tsx and has answered with the text of
\* lib.es5.d.ts
C22_Witness ==
  /\ resp.op = "op_load"
  /\ resp.arg = AssetSpecifier(Lib_es5) \o <<"x">>
  /\ resp.ret.ok
  /\ resp.ret.value.data = TextOf(Join(path_dts, LibFile(Lib_es5)))

\* op_load was asked for a specifier with white space in the name, and has failed
\* with InvalidSpecifier
C22_WitnessInvalid ==
  /\ resp.op = "op_load"
  /\ resp.arg = AssetSpecifier(<<"e", "s", " ", "5">>)
  /\ resp.ret = InvalidSpecifier(resp.arg)

\* the snapshot files there are
Snapshots == {CompilerSnapshotPath, CliSnapshotPath} \cap DOMAIN disk

\* C25: with DOCS_RS set main returns and there is never a snapshot; with TARGET other
\* than HOST it panics in main and there is never a snapshot; a CLI snapshot is written
\* only by create_cli_snapshot, which runs only once the compiler snapshot is written,
\* so there is none when create_compiler_snapshot has panicked.
C25_SnapshotOrder ==
  /\ script.docs_rs => (script.pc \in {"main", "returned"} /\ Snapshots = {})
  /\ (~script.docs_rs /\ script.target # script.host) =>
       /\ script.pc \in {"main", "panicked"}
       /\ script.pc = "panicked" =>
            (script.in = "main"
               /\ script.panic = "Cross compiling with snapshot is not supported.")
       /\ Snapshots = {}
  /\ script.pc \in {"create_compiler_snapshot", "tsc_extension", "warm_up"} => Snapshots = {}
  /\ CliSnapshotPath \in DOMAIN disk =>
       (CompilerSnapshotPath \in DOMAIN disk /\ script.pc = "done")
  /\ (script.pc = "panicked" /\ script.in = "create_compiler_snapshot") => Snapshots = {}

\* main has panicked on a TARGET other than HOST, with nothing written
C25_Witness ==
  /\ script.pc = "panicked"
  /\ script.target # script.host
  /\ script.symbols_list
  /\ script.panic = "Cross compiling with snapshot is not supported."
  /\ disk = <<>>

\* main has returned with DOCS_RS set, on a TARGET other than HOST
C25_WitnessDocsRs ==
  /\ script.pc = "returned"
  /\ script.docs_rs
  /\ script.target # script.host
  /\ Snapshots = {}

\* both snapshots are written
C25_WitnessDone ==
  /\ script.pc = "done"
  /\ Snapshots = {CompilerSnapshotPath, CliSnapshotPath}

-----------------------------------------------------------------------------
(* Claims about the deno process.                                            *)

\* C26: unwrap_or_exit returns the value of a success and the process goes on with it,
\* without exiting at that call; on a LockfileError the process exits with code 10;
\* on every other error, a JsError included, it exits with code 1; after an error
\* the process is never anywhere but exited, with one line on stderr for it.
C26_UnwrapOrExit ==
  LET call == process.unwrapped
  IN /\ call.result.ok =>
          /\ call.outcome.returns
          /\ call.outcome.value = call.result.value
          /\ call.outcome.exit = None
          /\ call.at = "standalone" => process.pc \in {"flags", "run_subcommand", "exited"}
          /\ (call.at = "run_subcommand" /\ process.pc = "exited") =>
               process.exit_code = Some(call.result.value)
     /\ ~call.result.ok =>
          /\ ~call.outcome.returns
          /\ process.pc = "exited"
          /\ process.exit_code =
               Some(IF call.result.value.type = "LockfileError" THEN 10 ELSE 1)
          /\ Len(process.stderr) = 1
     /\ process.pc # "exited" => (process.exit_code = None /\ process.stderr = <<>>)

\* a LockfileError whose text starts with "error: " has ended the process with code 10
C26_Witness ==
  /\ process.pc = "exited"
  /\ process.unwrapped.at = "run_subcommand"
  /\ ~process.unwrapped.result.ok
  /\ process.unwrapped.result.value = [type |-> "LockfileError", text |-> <<"error: ", "boom">>]
  /\ process.exit_code = Some(10)
  /\ process.stderr = <<<<"error", ": ", "boom">>>>

\* a JsError has ended the process with code 1
C26_WitnessJsError ==
  /\ process.pc = "exited"
  /\ ~process.unwrapped.result.ok
  /\ process.unwrapped.result.value.type = "JsError"
  /\ process.exit_code = Some(1)

\* a success was returned and the process went on to parse its flags
C26_WitnessOk ==
  /\ process.pc = "flags"
  /\ process.unwrapped.at = "standalone"
  /\ process.unwrapped.result.ok
  /\ process.exit_code = None

====
